---------------------------- MODULE Spec2Model ----------------------------
(***************************************************************************)
(* A model of the provider gateway of reverse_ai_api:                      *)
(*   provider_loader.py   parse_headers, load_provider_config,             *)
(*                        determine_provider                               *)
(*   provider_handler.py  parse_sse_line, stream_provider_response,        *)
(*                        build_provider_payload, make_provider_request,   *)
(*                        handle_provider_request                          *)
(*                                                                         *)
(* Python values are modelled as follows.  A dict is a TLA+ record whose   *)
(* DOMAIN is the dict's key set ("k in d" is k \in DOMAIN d); the empty    *)
(* dict is the function with the empty domain.  A str is a TLA+ string.    *)
(* None and the non-dict JSON values carry a tag field py.  The wall clock *)
(* (the "created" field of every response) is not modelled.                *)
(***************************************************************************)
EXTENDS Integers, Sequences, FiniteSets, TLC

VARIABLES
    lines_read,           \* the lines provider_response.iter_lines() has yielded so far
    stream_requested,     \* the stream_requested argument of stream_provider_response
    model,                \* the model argument of stream_provider_response
    response_id,          \* the identifier minted at line 194
    accumulated_content,  \* local of stream_provider_response
    usage,                \* local of stream_provider_response
    first_chunk_sent,     \* local of stream_provider_response
    yielded,              \* what the generator has yielded so far, in order
    pc,                   \* where the generator is: "idle", "reading", "done", "raised"
    openai_data,          \* the openai_data argument of handle_provider_request
    provider_dir,         \* the directory porviders/<provider_name> on disk
    provider_config,      \* what load_provider_config returned
    sent,                 \* the request make_provider_request handed to requests.post
    upstream,             \* what the provider did with it
    result,               \* what handle_provider_request returned
    gw_pc,                \* where the caller is: "idle", "start", "returned", "raised",
                          \* and "registry", "resolved", "loaded", "sent"
    clock,                \* int(time.time()) as the request's payload was built
    arg_model,            \* the model argument of determine_provider
    arg_provider,         \* the provider argument of determine_provider
    resolved,             \* what determine_provider returned
    heap,                 \* the objects of the interpreter, by address
    descriptor,           \* the address of the loaded provider_config, 0 before
    served,               \* how many requests were built from it
    forward_url,          \* app.py: FORWARD_URL
    forward_api_key       \* app.py: FORWARD_API_KEY

translator_vars == <<lines_read, stream_requested, model, response_id,
                     accumulated_content, usage, first_chunk_sent, yielded, pc>>
gateway_vars == <<openai_data, provider_dir, provider_config, sent, upstream,
                  result, gw_pc, clock>>
registry_vars == <<arg_model, arg_provider, resolved>>
descriptor_vars == <<heap, descriptor, served>>
app_vars == <<forward_url, forward_api_key>>

vars == <<translator_vars, gateway_vars, registry_vars, descriptor_vars, app_vars>>

-----------------------------------------------------------------------------
(* Bounds of the model *)

\* The longest upstream transcript (number of lines read from the provider).
MaxLines == 3

-----------------------------------------------------------------------------
(* Python values *)

None == [py |-> "None"]
PyInt(n) == [py |-> "int", v |-> n]
PyStr(s) == [py |-> "str", v |-> s]
PyList(items) == [py |-> "list", v |-> items]
EmptyDict == [k \in {} |-> 0]

IsDict(v) == "py" \notin DOMAIN v
IsList(v) == ~IsDict(v) /\ v.py = "list"

\* Python truthiness, as used by "if not parsed", "if usage", "usage or {}".
Truthy(v) ==
    IF IsDict(v) THEN DOMAIN v # {}
    ELSE CASE v.py = "None" -> FALSE
           [] v.py = "int"  -> v.v # 0
           [] v.py = "str"  -> v.v # ""
           [] v.py = "list" -> v.v # <<>>
           [] OTHER         -> TRUE

\* dict.get(key, default)
Get(d, key, default) == IF key \in DOMAIN d THEN d[key] ELSE default

-----------------------------------------------------------------------------
(* The upstream transcript: the lines iter_lines() can yield *)

\* JSON payloads that json.loads accepts, as the Python value it returns.
UsageA == [total_tokens |-> 5]
UsageB == [total_tokens |-> 7]

DeltaEvent(delta) == [choices |-> <<[delta |-> delta]>>]
DeltaEventWithUsage(delta, u) == [choices |-> <<[delta |-> delta]>>, usage |-> u]

Contents == {"", "a", "b"}
Statuses == {"typing", "finished"}

DeltaDocs ==
    {DeltaEvent([content |-> c, status |-> s]) : c \in Contents, s \in Statuses}
    \cup {DeltaEventWithUsage([content |-> c, status |-> s], UsageA) :
              c \in {"", "a"}, s \in Statuses}
    \cup {DeltaEvent([content |-> "b"]),                 \* no status: "typing"
          DeltaEvent([status |-> "finished"]),           \* no content: ""
          DeltaEventWithUsage([content |-> "b"], UsageB),
          DeltaEventWithUsage([content |-> "a"], EmptyDict)}

OtherDocs ==
    {[response_created |-> TRUE],      \* {"response.created": {...}}
     [response_created |-> TRUE,       \* the same, with a delta beside it
      choices |-> <<[delta |-> [content |-> "a", status |-> "finished"]]>>],
     EmptyDict,                        \* {}
     [choices |-> <<>>],               \* {"choices": []}
     [choices |-> <<[index |-> 0]>>],  \* first choice without a delta
     [choices |-> <<>>, usage |-> UsageB],  \* usage, and no choice beside it
     None,                             \* null
     PyInt(5)}                         \* 5

\* A line is empty, or text without the "data: " prefix, or "data: " followed
\* by a payload that is either valid JSON (json holds the decoded value) or not.
EmptyLine == [kind |-> "empty"]
TextLine == [kind |-> "text"]
InvalidDataLine == [kind |-> "data", valid |-> FALSE]
DataLine(doc) == [kind |-> "data", valid |-> TRUE, json |-> doc]

Lines ==
    {EmptyLine, TextLine, InvalidDataLine}
    \cup {DataLine(d) : d \in DeltaDocs \cup OtherDocs}

-----------------------------------------------------------------------------
(* parse_sse_line *)

\* Returns the decoded payload of a data line, None for every other line and
\* for a payload json.loads rejects (JSONDecodeError is caught).
parse_sse_line(line) ==
    IF line.kind = "data"
    THEN IF line.valid THEN line.json ELSE None
    ELSE None


-----------------------------------------------------------------------------
(* stream_provider_response *)

\* The generator's locals, as one value.
Locals(acc, u, first, out, at) ==
    [accumulated_content |-> acc, usage |-> u, first_chunk_sent |-> first,
     yielded |-> out, pc |-> at]

\* Lines 194-197.
InitialLocals == Locals("", None, FALSE, <<>>, "reading")

\* f"data: {json.dumps(chunk)}\n\n" and the literal "data: [DONE]\n\n".
Sse(chunk) == [data |-> chunk]
DoneLine == [data |-> [sentinel |-> "[DONE]"]]

\* A variant of FinalChunk that carries an identifier of its own.
FinalChunkOwnId(id, mdl, u) ==
    LET chunk == [id |-> "chatcmpl-final", object |-> "chat.completion.chunk",
                  model |-> mdl,
                  choices |-> <<[index |-> 0, delta |-> EmptyDict,
                                 finish_reason |-> "stop"]>>]
    IN  IF Truthy(u) THEN chunk @@ [usage |-> u] ELSE chunk

\* A variant of DeltaObj that sends the role with every frame.
DeltaObjRoleInEveryFrame(first_sent, content) ==
    IF content # ""
    THEN [role |-> "assistant", content |-> content]
    ELSE [role |-> "assistant"]

\* Lines 228-239: the delta of the frame for one event.
DeltaObj(first_sent, content) ==
    IF ~first_sent
    THEN IF content # ""
         THEN [role |-> "assistant", content |-> content]
         ELSE [role |-> "assistant"]
    ELSE [content |-> content]

\* A variant of OpenaiChunk that leaves the usage of the event out.
OpenaiChunkWithoutUsage(id, mdl, delta_obj, parsed) ==
    [id |-> id, object |-> "chat.completion.chunk", model |-> mdl,
     choices |-> <<[index |-> 0, delta |-> delta_obj, finish_reason |-> "None"]>>]

\* Lines 241-255: the frame for one event.
OpenaiChunk(id, mdl, delta_obj, parsed) ==
    LET chunk == [id |-> id, object |-> "chat.completion.chunk", model |-> mdl,
                  choices |-> <<[index |-> 0, delta |-> delta_obj,
                                 finish_reason |-> "None"]>>]
    IN  IF "usage" \in DOMAIN parsed
        THEN chunk @@ [usage |-> parsed.usage]
        ELSE chunk

\* Lines 264-276: the terminal frame.
FinalChunk(id, mdl, u) ==
    LET chunk == [id |-> id, object |-> "chat.completion.chunk", model |-> mdl,
                  choices |-> <<[index |-> 0, delta |-> EmptyDict,
                                 finish_reason |-> "stop"]>>]
    IN  IF Truthy(u) THEN chunk @@ [usage |-> u] ELSE chunk

\* Lines 283-297: the aggregate response of the non-streaming mode.
Aggregate(id, mdl, content, u) ==
    [id |-> id, object |-> "chat.completion", model |-> mdl,
     choices |-> <<[index |-> 0,
                    message |-> [role |-> "assistant", content |-> content],
                    finish_reason |-> "stop"]>>,
     usage |-> IF Truthy(u) THEN u ELSE EmptyDict]

\* Lines 281-297: what follows the loop, reached by the break of line 279 and
\* by the end of the upstream body alike.
AfterLoop(st, requested, id, mdl) ==
    IF ~requested
    THEN [st EXCEPT !.yielded = Append(@, Aggregate(id, mdl, st.accumulated_content,
                                                    st.usage)),
                    !.pc = "done"]
    ELSE [st EXCEPT !.pc = "done"]

\* A variant of Break that stays in the loop.
NoBreak(st, requested, id, mdl) == st

\* Line 279: the break that leaves the loop at a finished event; the generator
\* goes on with the code after the loop.
Break(st, requested, id, mdl) == AfterLoop(st, requested, id, mdl)

\* A variant of SkipUnparsed that gives the translation up.
AbortOnUnparsed(st) == [st EXCEPT !.pc = "raised"]

\* Lines 206-207: the continue at a line parse_sse_line gave nothing for.
SkipUnparsed(st) == st

\* A variant of Accumulate that puts the new content in front.
AccumulateInFront(acc, content) == IF content # "" THEN content \o acc ELSE acc

\* Line 223: accumulated_content += content, when content is not empty.
Accumulate(acc, content) == IF content # "" THEN acc \o content ELSE acc

\* Lines 218-279: one delta-bearing document.
ProcessDelta(st, parsed, requested, id, mdl) ==
    LET delta == parsed.choices[1].delta
        content == Get(delta, "content", "")
        status == Get(delta, "status", "typing")
        acc == Accumulate(st.accumulated_content, content)
        frame == Sse(OpenaiChunk(id, mdl, DeltaObj(st.first_chunk_sent, content),
                                 parsed))
        u == IF requested /\ "usage" \in DOMAIN parsed THEN parsed.usage
             ELSE st.usage
        out1 == IF requested THEN Append(st.yielded, frame) ELSE st.yielded
        first == IF requested THEN TRUE ELSE st.first_chunk_sent
        out2 == IF status = "finished" /\ requested
                THEN out1 \o <<Sse(FinalChunk(id, mdl, u)), DoneLine>>
                ELSE out1
        st2 == Locals(acc, u, first, out2, st.pc)
    IN  IF status = "finished" THEN Break(st2, requested, id, mdl) ELSE st2

\* Lines 202-279: the body of the loop for one line of the upstream body.
LoopBody(st, line, requested, id, mdl) ==
    IF line.kind = "empty" THEN st                           \* 202
    ELSE LET parsed == parse_sse_line(line) IN
         IF ~Truthy(parsed) THEN SkipUnparsed(st)            \* 206
         ELSE IF ~IsDict(parsed) /\ parsed.py = "int"
              THEN [st EXCEPT !.pc = "raised"]               \* 210: TypeError
         ELSE IF "response_created" \in DOMAIN parsed THEN st     \* 210
         ELSE IF "choices" \notin DOMAIN parsed THEN st      \* 214
         ELSE LET choices == parsed.choices IN
              IF Len(choices) > 0 /\ "delta" \in DOMAIN choices[1]   \* 217
              THEN ProcessDelta(st, parsed, requested, id, mdl)
              ELSE st

\* Lines 201-279: the loop run over the lines of a transcript, left at the
\* first line that ends it.
RECURSIVE RunLoop(_, _, _, _, _)
RunLoop(st, lines, requested, id, mdl) ==
    IF st.pc # "reading" \/ lines = <<>> THEN st
    ELSE RunLoop(LoopBody(st, Head(lines), requested, id, mdl), Tail(lines),
                 requested, id, mdl)

CurrentLocals ==
    Locals(accumulated_content, usage, first_chunk_sent, yielded, pc)

SetLocals(st) ==
    /\ accumulated_content' = st.accumulated_content
    /\ usage' = st.usage
    /\ first_chunk_sent' = st.first_chunk_sent
    /\ yielded' = st.yielded
    /\ pc' = st.pc

-----------------------------------------------------------------------------
(* provider_loader.py: parse_headers *)

\* A line of header.txt is a sequence of pieces of text; the pieces ":" and
\* " " stand for a colon and for white space, every other piece is free of both.
RECURSIVE Join(_)
Join(pieces) == IF pieces = <<>> THEN "" ELSE Head(pieces) \o Join(Tail(pieces))

\* str.strip(): leading and trailing white space removed.
RECURSIVE LStrip(_)
LStrip(pieces) ==
    IF pieces # <<>> /\ Head(pieces) = " " THEN LStrip(Tail(pieces)) ELSE pieces

RECURSIVE RStrip(_)
RStrip(pieces) ==
    IF pieces # <<>> /\ pieces[Len(pieces)] = " "
    THEN RStrip(SubSeq(pieces, 1, Len(pieces) - 1))
    ELSE pieces

Strip(pieces) == RStrip(LStrip(pieces))

HasColon(line) == \E i \in 1..Len(line) : line[i] = ":"

\* The position of the first colon of a line that has one.
FirstColon(line) ==
    CHOOSE i \in 1..Len(line) :
        line[i] = ":" /\ \A j \in 1..(i - 1) : line[j] # ":"

\* Lines 24-26: line.split(':', 1), both parts stripped.
HeaderKey(line) == Join(Strip(SubSeq(line, 1, FirstColon(line) - 1)))
HeaderValue(line) == Join(Strip(SubSeq(line, FirstColon(line) + 1, Len(line))))

\* Line 28: headers[key] = value on a dict, which holds one value for a key.
SetHeader(headers, key, value) == (key :> value) @@ headers

\* Lines 18-30.  header_text is the file as its lines: the request line, then
\* the header lines.
RECURSIVE ParseHeaderLines(_, _)
ParseHeaderLines(headers, lines) ==
    IF lines = <<>> THEN headers
    ELSE LET line == Head(lines) IN
         ParseHeaderLines(
             IF HasColon(line)
             THEN SetHeader(headers, HeaderKey(line), HeaderValue(line))
             ELSE headers,
             Tail(lines))

parse_headers(header_text) ==
    IF header_text = <<>> THEN EmptyDict
    ELSE ParseHeaderLines(EmptyDict, Tail(header_text))

-----------------------------------------------------------------------------
(* provider_loader.py: load_provider_config *)

\* The request line "METHOD path[?query] HTTP/1.1" of header.txt, as the regular
\* expression of line 69 reads it: a line it does not match has no target.
RequestLine(method, path) == <<method, " ", path, " ", "HTTP/1.1">>
RequestLineWithQuery(method, path, query) ==
    <<method, " ", path, "?", query, " ", "HTTP/1.1">>

MatchesRequestLine(line) ==
    /\ Len(line) \in {5, 7}
    /\ line[2] = " "
    /\ line[Len(line)] = "HTTP/1.1"
    /\ line[Len(line) - 1] = " "
    /\ Len(line) = 7 => line[4] = "?"

\* Lines 66-78: method, path and query string from the first line.
RequestLineFields(header_text) ==
    IF header_text = <<>> \/ ~MatchesRequestLine(Head(header_text))
    THEN EmptyDict
    ELSE LET line == Head(header_text) IN
         IF Len(line) = 7
         THEN [method |-> line[1], path |-> line[3], query_params |-> line[5]]
         ELSE [method |-> line[1], path |-> line[3]]

\* A provider directory is None when porviders/<name> is no directory, and
\* otherwise a dict of the files in it: metadata_json and payload_json hold
\* the decoded JSON, header_txt the lines, response_md the example text.
\* Lines 48-92: every file that exists adds its keys; none is required.
load_provider_config(dir) ==
    IF dir = None THEN None                                    \* 48-50
    ELSE (IF "metadata_json" \in DOMAIN dir                    \* 55-58
          THEN [metadata |-> dir.metadata_json] ELSE EmptyDict)
         @@ (IF "header_txt" \in DOMAIN dir                    \* 61-78
             THEN [headers |-> parse_headers(dir.header_txt)]
                  @@ RequestLineFields(dir.header_txt)
             ELSE EmptyDict)
         @@ (IF "payload_json" \in DOMAIN dir                  \* 81-84
             THEN [payload_template |-> dir.payload_json] ELSE EmptyDict)
         @@ (IF "response_md" \in DOMAIN dir                   \* 87-90
             THEN [response |-> dir.response_md] ELSE EmptyDict)

-----------------------------------------------------------------------------
(* provider_loader.py: determine_provider *)

\* A model name is a sequence of characters.
LowerChar(c) ==
    CASE c = "Q" -> "q"
      [] c = "W" -> "w"
      [] c = "E" -> "e"
      [] c = "N" -> "n"
      [] OTHER   -> c

\* str.lower()
Lower(name) == [i \in 1..Len(name) |-> LowerChar(name[i])]

\* sub in s, for strings.
Contains(sub, s) ==
    \E i \in 0..(Len(s) - Len(sub)) : SubSeq(s, i + 1, i + Len(sub)) = sub

Qwen == <<"q", "w", "e", "n">>

\* A variant of determine_provider that looks for the fragment as it is spelt.
determine_provider_as_spelt(model_name, provider) ==
    IF Truthy(provider) THEN provider
    ELSE IF Contains(Qwen, model_name) THEN PyStr("qwen")
    ELSE None

\* A variant of determine_provider that looks at the model name first.
determine_provider_model_first(model_name, provider) ==
    IF Contains(Qwen, Lower(model_name)) THEN PyStr("qwen")
    ELSE IF Truthy(provider) THEN provider
    ELSE None

\* Lines 99-111.  provider is None or a str.
determine_provider(model_name, provider) ==
    IF Truthy(provider) THEN provider                          \* 99-100
    ELSE IF Contains(Qwen, Lower(model_name)) THEN PyStr("qwen")    \* 103-105
    ELSE None                                                  \* 111

-----------------------------------------------------------------------------
(* provider_handler.py: build_provider_messages, build_provider_payload *)

\* Line 21.
timestamp_gap == 10

\* A variant of build_provider_messages that gives every message the time at
\* which building started.
build_provider_messages_one_timestamp(openai_messages, payload_template, now) ==
    LET message_template ==
            IF "messages" \in DOMAIN payload_template
               /\ Len(payload_template.messages) > 0
            THEN payload_template.messages[1]
            ELSE EmptyDict
        Built(idx, msg) ==
            LET m1 == [role |-> Get(msg, "role", "user"),
                       content |-> Get(msg, "content", "")] @@ message_template
                m2 == IF "timestamp" \in DOMAIN m1
                      THEN [timestamp |-> now] @@ m1
                      ELSE m1
            IN  IF "models" \in DOMAIN m2
                   /\ "model" \in DOMAIN payload_template
                   /\ payload_template.model # ""
                THEN [models |-> <<payload_template.model>>] @@ m2
                ELSE m2
    IN  [i \in 1..Len(openai_messages) |-> Built(i - 1, openai_messages[i])]

\* Lines 19-44.  now is int(time.time()) at line 20.
build_provider_messages(openai_messages, payload_template, now) ==
    LET message_template ==                                       \* 24
            IF "messages" \in DOMAIN payload_template
               /\ Len(payload_template.messages) > 0
            THEN payload_template.messages[1]
            ELSE EmptyDict
        Built(idx, msg) ==
            LET m1 == [role |-> Get(msg, "role", "user"),         \* 28-32
                       content |-> Get(msg, "content", "")] @@ message_template
                m2 == IF "timestamp" \in DOMAIN m1                \* 35-36
                      THEN [timestamp |-> now + idx * timestamp_gap] @@ m1
                      ELSE m1
            IN  IF "models" \in DOMAIN m2                         \* 39-40
                   /\ "model" \in DOMAIN payload_template
                   /\ payload_template.model # ""
                THEN [models |-> <<payload_template.model>>] @@ m2
                ELSE m2
    IN  [i \in 1..Len(openai_messages) |-> Built(i - 1, openai_messages[i])]

\* A variant of build_provider_payload that takes the stream flag of the
\* caller's request when there is one.
build_provider_payload_caller_stream(data, config, now) ==
    LET payload_template == config.payload_template
        provider_messages ==
            build_provider_messages(Get(data, "messages", <<>>), payload_template, now)
        p1 == [messages |-> provider_messages] @@ payload_template
        p2 == IF "timestamp" \in DOMAIN p1
              THEN [timestamp |-> now] @@ p1 ELSE p1
        provider_streams ==
            Get(Get(config, "metadata", EmptyDict), "stream", TRUE)
    IN  IF "stream" \in DOMAIN p2
        THEN [stream |-> Get(data, "stream", provider_streams)] @@ p2
        ELSE p2

\* Lines 51-79, for a provider_config that has a payload_template.
build_provider_payload(data, config, now) ==
    LET payload_template == config.payload_template
        provider_messages ==
            build_provider_messages(Get(data, "messages", <<>>), payload_template, now)
        p1 == [messages |-> provider_messages] @@ payload_template    \* 60-61
        p2 == IF "timestamp" \in DOMAIN p1                        \* 64-65
              THEN [timestamp |-> now] @@ p1 ELSE p1
        provider_streams ==                                       \* 72-73
            Get(Get(config, "metadata", EmptyDict), "stream", TRUE)
    IN  IF "stream" \in DOMAIN p2                                 \* 76-77
        THEN [stream |-> provider_streams] @@ p2
        ELSE p2

-----------------------------------------------------------------------------
(* provider_handler.py: convert_provider_response_to_openai *)

\* A variant of convert_provider_response_to_openai without the rule for a
\* document with a content field of its own.
convert_without_content_rule(provider_data, mdl, id) ==
    LET first_choice_rule ==
            /\ "choices" \in DOMAIN provider_data
            /\ Len(provider_data.choices) > 0
        choice == provider_data.choices[1]
    IN  IF first_choice_rule /\ "message" \in DOMAIN choice
        THEN [id |-> id, object |-> "chat.completion", model |-> mdl,
              choices |-> provider_data.choices,
              usage |-> Get(provider_data, "usage", EmptyDict)]
        ELSE IF first_choice_rule /\ "delta" \in DOMAIN choice
        THEN [id |-> id, object |-> "chat.completion", model |-> mdl,
              choices |-> <<[index |-> 0,
                             message |-> [role |-> Get(choice.delta, "role", "assistant"),
                                          content |-> Get(choice.delta, "content", "")],
                             finish_reason |-> "stop"]>>,
              usage |-> Get(provider_data, "usage", EmptyDict)]
        ELSE IF "object" \in DOMAIN provider_data
        THEN [id |-> id] @@ provider_data
        ELSE None

\* A variant of convert_provider_response_to_openai that looks for a content
\* field of the document before it looks at the first choice.
convert_content_first(provider_data, mdl, id) ==
    LET first_choice_rule ==
            /\ "choices" \in DOMAIN provider_data
            /\ Len(provider_data.choices) > 0
        choice == provider_data.choices[1]
        Wrapped(role, content) ==
            [id |-> id, object |-> "chat.completion", model |-> mdl,
             choices |-> <<[index |-> 0,
                            message |-> [role |-> role, content |-> content],
                            finish_reason |-> "stop"]>>,
             usage |-> Get(provider_data, "usage", EmptyDict)]
    IN  IF "content" \in DOMAIN provider_data
        THEN Wrapped("assistant", provider_data.content)
        ELSE IF first_choice_rule /\ "message" \in DOMAIN choice
        THEN [id |-> id, object |-> "chat.completion", model |-> mdl,
              choices |-> provider_data.choices,
              usage |-> Get(provider_data, "usage", EmptyDict)]
        ELSE IF first_choice_rule /\ "delta" \in DOMAIN choice
        THEN Wrapped(Get(choice.delta, "role", "assistant"),
                     Get(choice.delta, "content", ""))
        ELSE IF "object" \in DOMAIN provider_data
        THEN [id |-> id] @@ provider_data
        ELSE None

\* Lines 102-158, for a provider_data that is a dict; None when no rule matches.
convert_provider_response_to_openai(provider_data, mdl, id) ==
    LET first_choice_rule ==
            /\ "choices" \in DOMAIN provider_data
            /\ Len(provider_data.choices) > 0
        choice == provider_data.choices[1]
        Wrapped(role, content) ==
            [id |-> id, object |-> "chat.completion", model |-> mdl,
             choices |-> <<[index |-> 0,
                            message |-> [role |-> role, content |-> content],
                            finish_reason |-> "stop"]>>,
             usage |-> Get(provider_data, "usage", EmptyDict)]
    IN  IF first_choice_rule /\ "message" \in DOMAIN choice           \* 105-114
        THEN [id |-> id, object |-> "chat.completion", model |-> mdl,
              choices |-> provider_data.choices,
              usage |-> Get(provider_data, "usage", EmptyDict)]
        ELSE IF first_choice_rule /\ "delta" \in DOMAIN choice        \* 115-132
        THEN Wrapped(Get(choice.delta, "role", "assistant"),
                     Get(choice.delta, "content", ""))
        ELSE IF "content" \in DOMAIN provider_data                    \* 136-151
        THEN Wrapped("assistant", provider_data.content)
        ELSE IF "object" \in DOMAIN provider_data                     \* 154-156
        THEN [id |-> id] @@ provider_data
        ELSE None                                                     \* 158

-----------------------------------------------------------------------------
(* provider_handler.py: make_provider_request *)

\* Line 183.
timeout == 60

\* Lines 165-184: the request handed to requests.post, or the KeyError of a
\* provider_config without metadata, headers or host.
make_provider_request(config, payload, stream) ==
    IF \/ "metadata" \notin DOMAIN config                    \* 165
       \/ "headers" \notin DOMAIN config                     \* 166
       \/ "host" \notin DOMAIN config.metadata               \* 169
    THEN [exc |-> "KeyError"]
    ELSE [url |-> [host |-> config.metadata.host,
                   path |-> Get(config, "path", "/api/v2/chat/completions"),
                   query |-> Get(config, "query_params", "")],
          json |-> payload,
          headers |-> config.headers,
          stream |-> stream,
          timeout |-> timeout]

-----------------------------------------------------------------------------
(* provider_handler.py: handle_provider_request *)

\* What the handler returns: a JSON response with a status code, a streaming
\* response whose body is the generator, or an exception that leaves it.
JsonResponse(status_code, body) ==
    [kind |-> "json", status_code |-> status_code, body |-> body]
StreamResponse ==
    [kind |-> "stream", status_code |-> 200, mimetype |-> "text/event-stream"]
Raised(exc) == [kind |-> "raise", exc |-> exc]

\* The envelope of every error; message is the text before the detail.
ErrorBody(message, type, code) ==
    [error |-> [message |-> message, type |-> type, code |-> code]]

\* What requests.post and the provider do: an exception of the transport, or a
\* response with a status code, headers and a body.  The body is an event
\* stream, a JSON document (json holds the decoded value) or other text.
IsTransportError(outcome) == "exc" \in DOMAIN outcome

\* Line 328: raise_for_status() raises HTTPError for a 4xx or 5xx status.
RaisesForStatus(response) == response.status_code >= 400 /\ response.status_code < 600

\* A variant of IsActuallyStream that believes the headers of the response.
IsActuallyStreamByHeaders(provider_streams, response) ==
    \/ Get(response.headers, "Content-Type", "") = "text/event-stream"
    \/ Get(response.headers, "Transfer-Encoding", "") = "chunked"

\* Lines 332-346.
IsActuallyStream(provider_streams, response) ==
    IF ~provider_streams THEN FALSE
    ELSE LET by_type == Get(response.headers, "Content-Type", "") = "text/event-stream"
             by_encoding ==
                 IF ~by_type
                 THEN Get(response.headers, "Transfer-Encoding", "") = "chunked"
                 ELSE by_type
         IN  IF ~by_encoding /\ provider_streams THEN TRUE ELSE by_encoding

\* A variant of NormalizedResponse that answers with the parse error when no
\* rule matches.
NormalizedResponseOrError(response, mdl, id) ==
    IF "json" \notin DOMAIN response.body
    THEN JsonResponse(500, ErrorBody("Failed to parse provider response",
                                     "server_error", "parse_error"))
    ELSE LET response_data == response.body.json IN
         IF ~IsDict(response_data)
         THEN JsonResponse(500, ErrorBody("Failed to parse provider response",
                                     "server_error", "parse_error"))
         ELSE LET openai_response ==
                      convert_provider_response_to_openai(response_data, mdl, id)
              IN  IF Truthy(openai_response)
                  THEN JsonResponse(response.status_code, openai_response)
                  ELSE JsonResponse(500, ErrorBody("Failed to parse provider response",
                                                   "server_error", "parse_error"))

\* Lines 363-382: the normalizer path.
NormalizedResponse(response, mdl, id) ==
    IF "json" \notin DOMAIN response.body                 \* 364: json() raises
    THEN JsonResponse(500, ErrorBody("Failed to parse provider response",
                                     "server_error", "parse_error"))
    ELSE LET response_data == response.body.json IN
         IF ~IsDict(response_data)                        \* 368: TypeError
         THEN JsonResponse(500, ErrorBody("Failed to parse provider response",
                                     "server_error", "parse_error"))
         ELSE LET openai_response ==
                      convert_provider_response_to_openai(response_data, mdl, id)
              IN  IF Truthy(openai_response)              \* 370-374
                  THEN JsonResponse(response.status_code, openai_response)
                  ELSE JsonResponse(response.status_code, response_data)

\* The handler's outcome: the provider_config it loaded, the request it sent
\* (None when it sent none), what came back, and what it returns.
Handled(config, request, outcome, returned) ==
    [provider_config |-> config, sent |-> request, upstream |-> outcome,
     result |-> returned]

\* Lines 326-392: from the provider's answer to the handler's return value.
AfterRequest(outcome, provider_streams, mdl, id) ==
    IF IsTransportError(outcome) \/ RaisesForStatus(outcome)          \* 384-392
    THEN JsonResponse(500, ErrorBody("Failed to connect to provider",
                                     "server_error", "provider_error"))
    ELSE IF IsActuallyStream(provider_streams, outcome)               \* 349-359
    THEN StreamResponse
    ELSE NormalizedResponse(outcome, mdl, id)                         \* 360-382

\* The handler got as far as line 365: the provider answered, the answer is no
\* stream, and its body was decoded by line 364.
ReachesNormalizer(h) ==
    /\ h.sent # None
    /\ ~IsTransportError(h.upstream)
    /\ ~RaisesForStatus(h.upstream)
    /\ h.result.kind = "json"
    /\ "json" \in DOMAIN h.upstream.body

\* Lines 304-392.  dir is the provider's directory, data the caller's request,
\* outcome what the provider does with the request, id the uuid minted, now the
\* clock.
handle_provider_request(data, dir, outcome, id, now) ==
    LET config == load_provider_config(dir) IN
    IF ~Truthy(config)                                                \* 306-314
    THEN Handled(config, None, None,
                 JsonResponse(400, ErrorBody("Provider not found",
                                             "invalid_request_error",
                                             "provider_not_found")))
    ELSE IF "payload_template" \notin DOMAIN config                   \* 317, 51
    THEN Handled(config, None, None, Raised("KeyError"))
    ELSE LET payload == build_provider_payload(data, config, now)
             provider_streams ==                                      \* 320-321
                 Get(Get(config, "metadata", EmptyDict), "stream", TRUE)
             mdl == Get(data, "model", "gpt-3.5-turbo")               \* 323
             request == make_provider_request(config, payload, provider_streams)
         IN  IF "exc" \in DOMAIN request                              \* 327
             THEN Handled(config, None, None, Raised(request.exc))
             ELSE Handled(config, request, outcome,
                          AfterRequest(outcome, provider_streams, mdl, id))

-----------------------------------------------------------------------------
(* The stream translator on its own: stream_provider_response called with  *)
(* either value of stream_requested, the upstream body arriving line by    *)
(* line.                                                                   *)

ResponseIds == {"chatcmpl-1", "chatcmpl-2"}
Models == {"qwen-7b"}

Init ==
    /\ lines_read = <<>>
    /\ stream_requested \in BOOLEAN
    /\ model \in Models
    /\ response_id \in ResponseIds
    /\ accumulated_content = InitialLocals.accumulated_content
    /\ usage = InitialLocals.usage
    /\ first_chunk_sent = InitialLocals.first_chunk_sent
    /\ yielded = InitialLocals.yielded
    /\ pc = InitialLocals.pc
    /\ openai_data = None
    /\ provider_dir = None
    /\ provider_config = None
    /\ sent = None
    /\ upstream = None
    /\ result = None
    /\ gw_pc = "idle"
    /\ clock = 0
    /\ arg_model = <<>>
    /\ arg_provider = None
    /\ resolved = None
    /\ heap = <<>>
    /\ descriptor = 0
    /\ served = 0
    /\ forward_url = None
    /\ forward_api_key = None

\* iter_lines() yields one more line and the loop body runs on it.
ReadLine(line) ==
    /\ pc = "reading"
    /\ Len(lines_read) < MaxLines
    /\ lines_read' = Append(lines_read, line)
    /\ SetLocals(LoopBody(CurrentLocals, line, stream_requested, response_id, model))
    /\ UNCHANGED <<stream_requested, model, response_id, gateway_vars, registry_vars,
                   descriptor_vars, app_vars>>

\* The upstream body ends: iter_lines() is exhausted and the loop is left.
EndOfBody ==
    /\ pc = "reading"
    /\ SetLocals(AfterLoop(CurrentLocals, stream_requested, response_id, model))
    /\ UNCHANGED <<lines_read, stream_requested, model, response_id,
                   gateway_vars, registry_vars, descriptor_vars, app_vars>>

Next ==
    \/ \E line \in Lines : ReadLine(line)
    \/ EndOfBody

Spec == Init /\ [][Next]_vars


-----------------------------------------------------------------------------
(* The gateway: handle_provider_request called for one request, and then   *)
(* the generator of its streaming response consumed by the server.         *)

\* The longest upstream body of the gateway (number of lines).
MaxBodyLines == 3

Messages == <<[role |-> "system", content |-> "Be brief"],
              [role |-> "user", content |-> "Hi"]>>

\* A longer conversation, its last message without a role.
LongerMessages == Messages \o <<[role |-> "assistant", content |-> "Hello"],
                                [content |-> "Bye"]>>

\* The caller's requests: model given or not, stream true, false or not given.
Requests ==
    {[model |-> "qwen-7b", messages |-> Messages],
     [model |-> "qwen-7b", messages |-> LongerMessages],
     [model |-> "qwen-7b", messages |-> Messages, stream |-> TRUE],
     [model |-> "qwen-7b", messages |-> Messages, stream |-> FALSE],
     [messages |-> Messages, stream |-> FALSE]}

Metadatas ==
    {[host |-> "chat.example"],
     [host |-> "chat.example", stream |-> TRUE],
     [host |-> "chat.example", stream |-> FALSE]}

Template ==
    [stream |-> FALSE, model |-> "qwen-max", timestamp |-> 0, chat_id |-> "c1",
     messages |-> <<[role |-> "user", content |-> "", timestamp |-> 0,
                     models |-> <<"qwen-max">>, extra |-> "feature"]>>]

BareTemplate == [chat_id |-> "c1"]

HeaderText ==
    <<RequestLineWithQuery("POST", "/api/chat", "chat_id=c1"),
      <<"Accept", ":", " ", "*/*">>,
      <<"Cookie", ":", " ", "token">>>>

\* The directories the provider can have on disk: none, or any subset of the
\* four files.
OptionalFile(key, contents) == {EmptyDict} \cup {(key :> c) : c \in contents}

ProviderDirs ==
    {None}
    \cup {m @@ h @@ t @@ r :
            m \in OptionalFile("metadata_json", Metadatas),
            h \in OptionalFile("header_txt", {HeaderText}),
            t \in OptionalFile("payload_json", {Template, BareTemplate}),
            r \in OptionalFile("response_md", {"example"})}

\* What the provider can do with the request.
StatusCodes == {200, 404, 503}

ResponseHeaders ==
    {EmptyDict,
     "Content-Type" :> "text/event-stream",
     "Content-Type" :> "application/json",
     ("Content-Type" :> "application/json") @@ ("Transfer-Encoding" :> "chunked"),
     ("Content-Type" :> "text/event-stream") @@ ("Transfer-Encoding" :> "chunked"),
     "Transfer-Encoding" :> "chunked"}

SseBody == [text |-> "event-stream"]
HtmlBody == [text |-> "html"]
JsonBody(doc) == [json |-> doc]

Documents ==
    {[choices |-> <<[message |-> [role |-> "assistant", content |-> "X"]]>>,
      usage |-> UsageA],
     [choices |-> <<[delta |-> [content |-> "X"]]>>],
     [content |-> "X", usage |-> UsageA],
     [content |-> "Y"],
     [choices |-> <<>>, content |-> "Z", usage |-> UsageB],
     [choices |-> <<[index |-> 0]>>],
     [object |-> "list", id |-> "upstream-1"],
     [choices |-> <<[message |-> [role |-> "assistant", content |-> "M"],
                     delta |-> [content |-> "D"]]>>,
      content |-> "C", object |-> "chat.completion", id |-> "upstream-2"],
     [choices |-> <<[delta |-> [role |-> "tool", content |-> "D"]]>>,
      content |-> "C", object |-> "list"],
     [content |-> "C", object |-> "list", id |-> "upstream-3"],
     [choices |-> <<[index |-> 0]>>, object |-> "list"],
     [error |-> "overloaded"],
     PyInt(5)}

Bodies == {SseBody, HtmlBody} \cup {JsonBody(d) : d \in Documents}

Outcomes ==
    {[exc |-> "ConnectionError"], [exc |-> "Timeout"]}
    \cup [status_code : StatusCodes, headers : ResponseHeaders, body : Bodies]

Times == {1000, 1007}

\* The lines of an upstream body read as a stream: events when the body is an
\* event stream, and lines without the "data: " prefix when it is not.
BodyLines ==
    IF gw_pc = "returned" /\ result.kind = "stream"
    THEN IF upstream.body = SseBody
         THEN {DataLine(DeltaEvent([content |-> "a"])),
               DataLine(DeltaEvent([content |-> "b", status |-> "finished"])),
               DataLine([response_created |-> TRUE]),
               InvalidDataLine}
         ELSE {TextLine}
    ELSE {}

GatewayInit ==
    /\ lines_read = <<>>
    /\ stream_requested = FALSE
    /\ model = ""
    /\ response_id = ""
    /\ accumulated_content = ""
    /\ usage = None
    /\ first_chunk_sent = FALSE
    /\ yielded = <<>>
    /\ pc = "idle"
    /\ openai_data \in Requests
    /\ provider_dir \in ProviderDirs
    /\ provider_config = None
    /\ sent = None
    /\ upstream = None
    /\ result = None
    /\ gw_pc = "start"
    /\ clock = 0
    /\ arg_model = <<>>
    /\ arg_provider = None
    /\ resolved = None
    /\ heap = <<>>
    /\ descriptor = 0
    /\ served = 0
    /\ forward_url = None
    /\ forward_api_key = None

\* handle_provider_request runs to its return (or to the exception that leaves
\* it).  A streaming response holds the generator, started by the server with
\* stream_requested = True (line 352).  response_id is the identifier minted
\* for the request, by the generator (line 194) or on the normalizer path
\* (line 365).
HandleProviderRequest(outcome, id, now) ==
    /\ gw_pc = "start"
    /\ LET h == handle_provider_request(openai_data, provider_dir, outcome, id, now)
           streams == h.result.kind = "stream"
       IN  /\ provider_config' = h.provider_config
           /\ sent' = h.sent
           /\ upstream' = h.upstream
           /\ result' = h.result
           /\ gw_pc' = IF h.result.kind = "raise" THEN "raised" ELSE "returned"
           /\ pc' = IF streams THEN InitialLocals.pc ELSE pc
           /\ stream_requested' = IF streams THEN TRUE ELSE stream_requested
           /\ model' = IF streams THEN Get(openai_data, "model", "gpt-3.5-turbo")
                       ELSE model
           /\ response_id' = IF streams \/ ReachesNormalizer(h)      \* 194, 365
                             THEN id ELSE response_id
           /\ clock' = IF Truthy(h.provider_config)                  \* 20
                          /\ "payload_template" \in DOMAIN h.provider_config
                       THEN now ELSE clock
    /\ UNCHANGED <<lines_read, accumulated_content, usage, first_chunk_sent, yielded,
                   openai_data, provider_dir, registry_vars, descriptor_vars,
                   app_vars>>

\* The server reads the streaming response: the generator's loop runs on the
\* next line of the upstream body.
ReadBodyLine(line) ==
    /\ gw_pc = "returned"
    /\ pc = "reading"
    /\ Len(lines_read) < MaxBodyLines
    /\ lines_read' = Append(lines_read, line)
    /\ SetLocals(LoopBody(CurrentLocals, line, stream_requested, response_id, model))
    /\ UNCHANGED <<stream_requested, model, response_id, gateway_vars, registry_vars,
                   descriptor_vars, app_vars>>

GatewayNext ==
    \/ \E outcome \in Outcomes, id \in ResponseIds, now \in Times :
           HandleProviderRequest(outcome, id, now)
    \/ \E line \in BodyLines : ReadBodyLine(line)
    \/ EndOfBody

SpecGateway == GatewayInit /\ [][GatewayNext]_vars

-----------------------------------------------------------------------------
(* The registry: determine_provider applied to a model name and a provider *)
(* field, and a provider's header block loaded by load_provider_config and *)
(* sent upstream by make_provider_request.                                 *)

\* The longest model name (number of characters).
MaxModelLen == 5
\* The most header lines after the request line of header.txt.
MaxHeaderLines == 3

Chars == {"q", "Q", "w", "e", "E", "n", "-"}

SeqsUpTo(S, n) == UNION {[1..k -> S] : k \in 0..n}

ModelNames == SeqsUpTo(Chars, MaxModelLen)

\* The provider field of a request: not given, empty, or a name.
ProviderArgs == {None, PyStr(""), PyStr("openai")}

HeaderLines ==
    {<<"Accept", ":", " ", "*/*">>,
     <<"Accept", ":", " ", "text/html">>,
     <<" ", "Cookie", " ", ":", "a=1", " ">>,
     <<"Referer", ":", " ", "https", ":", "//chat.example">>,
     <<"chunked">>,
     <<>>}

HeaderTexts ==
    {<<first>> \o rest :
         first \in {RequestLine("POST", "/api/chat"),
                    RequestLineWithQuery("POST", "/api/chat", "chat_id=c1")},
         rest \in SeqsUpTo(HeaderLines, MaxHeaderLines)}

HeaderDirs ==
    {[metadata_json |-> [host |-> "chat.example"], header_txt |-> text,
      payload_json |-> BareTemplate] : text \in HeaderTexts}

RegistryInit ==
    /\ lines_read = <<>>
    /\ stream_requested = FALSE
    /\ model = ""
    /\ response_id = ""
    /\ accumulated_content = ""
    /\ usage = None
    /\ first_chunk_sent = FALSE
    /\ yielded = <<>>
    /\ pc = "idle"
    /\ openai_data = [messages |-> Messages]
    /\ provider_config = None
    /\ sent = None
    /\ upstream = None
    /\ result = None
    /\ gw_pc = "registry"
    /\ clock = 0
    /\ resolved = None
    /\ heap = <<>>
    /\ descriptor = 0
    /\ served = 0
    /\ forward_url = None
    /\ forward_api_key = None
    /\ \/ /\ arg_model \in ModelNames
          /\ arg_provider \in ProviderArgs
          /\ provider_dir = None
       \/ /\ arg_model = Qwen
          /\ arg_provider = None
          /\ provider_dir \in HeaderDirs

DetermineProvider ==
    /\ gw_pc = "registry"
    /\ resolved' = determine_provider(arg_model, arg_provider)
    /\ gw_pc' = "resolved"
    /\ UNCHANGED <<translator_vars, openai_data, provider_dir, provider_config, sent,
                   upstream, result, clock, arg_model, arg_provider,
                   descriptor_vars, app_vars>>

LoadProviderConfig ==
    /\ gw_pc = "resolved"
    /\ provider_dir # None
    /\ provider_config' = load_provider_config(provider_dir)
    /\ gw_pc' = "loaded"
    /\ UNCHANGED <<translator_vars, openai_data, provider_dir, sent, upstream, result,
                   clock, registry_vars, descriptor_vars, app_vars>>

MakeProviderRequest ==
    /\ gw_pc = "loaded"
    /\ \E now \in Times :
           /\ sent' = make_provider_request(
                          provider_config,
                          build_provider_payload(openai_data, provider_config, now),
                          Get(provider_config.metadata, "stream", TRUE))
           /\ clock' = now
    /\ gw_pc' = "sent"
    /\ UNCHANGED <<translator_vars, openai_data, provider_dir, provider_config,
                   upstream, result, registry_vars, descriptor_vars, app_vars>>

RegistryNext ==
    \/ DetermineProvider
    \/ LoadProviderConfig
    \/ MakeProviderRequest

SpecRegistry == RegistryInit /\ [][RegistryNext]_vars

-----------------------------------------------------------------------------
(* app.py: chat_completions, forward_request, generate_mock_response *)

\* What request.get_json() makes of a body that is no JSON: it raises.
NotJson == [py |-> "undecodable"]

\* Lines 206-212: count_tokens(text), from the length of the text.
count_tokens(length) == length \div 4

\* len(str(value)) for a str, a dict of str to str and a list of these: the
\* quotes of a str, the braces, colons and commas of a dict, the brackets and
\* commas of a list.
RECURSIVE ItemsReprLen(_, _)
ItemsReprLen(d, keys) ==
    IF keys = {} THEN 0
    ELSE LET k == CHOOSE key \in keys : TRUE IN
         (Len(k) + 2) + 2 + (Len(d[k]) + 2) + ItemsReprLen(d, keys \ {k})

ReprLen(value) ==
    IF IsDict(value)
    THEN 2 + ItemsReprLen(value, DOMAIN value)
         + (IF DOMAIN value = {} THEN 0 ELSE 2 * (Cardinality(DOMAIN value) - 1))
    ELSE Len(value.v) + 2

RECURSIVE ListItemsReprLen(_)
ListItemsReprLen(items) ==
    IF items = <<>> THEN 0
    ELSE ReprLen(Head(items)) + ListItemsReprLen(Tail(items))

ListReprLen(items) ==
    2 + ListItemsReprLen(items)
    + (IF items = <<>> THEN 0 ELSE 2 * (Len(items) - 1))

\* Lines 197-203, for a list whose last element is a dict.
generate_mock_response(messages) ==
    LET last_message == messages[Len(messages)]
        user_content == Get(last_message, "content", "")
    IN  IF user_content # ""
        THEN "This is a mock response to: " \o user_content
        ELSE "This is a mock response from the reverse OpenAI API."

\* Lines 70-77: the answer to any exception raised inside chat_completions.
InternalError(exc) ==
    JsonResponse(500, ErrorBody(exc, "server_error", "internal_error"))

\* Lines 45-68.
MockResponse(messages, mdl, id) ==
    IF ~IsDict(messages[Len(messages)])                       \* 198: .get
    THEN InternalError("AttributeError")
    ELSE LET response_content == generate_mock_response(messages)
             prompt_tokens == count_tokens(ListReprLen(messages))
             completion_tokens == count_tokens(Len(response_content))
         IN  JsonResponse(200,
                 [id |-> id, object |-> "chat.completion", model |-> mdl,
                  choices |-> <<[index |-> 0,
                                 message |-> [role |-> "assistant",
                                              content |-> response_content],
                                 finish_reason |-> "stop"]>>,
                  usage |-> [prompt_tokens |-> prompt_tokens,
                             completion_tokens |-> completion_tokens,
                             total_tokens |-> prompt_tokens + completion_tokens]])

\* What chat_completions did: the request it forwarded (None when it forwarded
\* none), what came back, and its answer.
Answered(request, outcome, returned) ==
    [sent |-> request, upstream |-> outcome, result |-> returned]

\* Line 174.
forward_timeout == 60

\* Lines 160-188.  url and key are FORWARD_URL and FORWARD_API_KEY; outcome is
\* what requests.post and the other API do.  response.json() raises for a body
\* that is no JSON; whether that exception is a RequestException depends on
\* the version of requests, so decode_error_caught is either.
forward_request(data, url, key, outcome, decode_error_caught) ==
    LET headers ==
            IF Truthy(key)                                         \* 161-167
            THEN ("Content-Type" :> "application/json")
                 @@ ("Authorization" :> ("Bearer " \o key.v))
            ELSE ("Content-Type" :> "application/json")
        request == [url |-> url.v, json |-> data, headers |-> headers,
                    timeout |-> forward_timeout]
        forward_error ==
            JsonResponse(500, ErrorBody("Failed to forward request",
                                        "server_error", "forward_error"))
    IN  IF IsTransportError(outcome) \/ RaisesForStatus(outcome)   \* 178, 181-188
        THEN Answered(request, outcome, forward_error)
        ELSE IF "json" \notin DOMAIN outcome.body                  \* 179
        THEN Answered(request, outcome,
                      IF decode_error_caught THEN forward_error
                      ELSE InternalError("JSONDecodeError"))
        ELSE Answered(request, outcome,
                      JsonResponse(outcome.status_code, outcome.body.json))

\* Lines 20-77.  body is what the caller posted, as request.get_json() decodes
\* it, or NotJson.
chat_completions(body, url, key, outcome, id, decode_error_caught) ==
    IF body = NotJson                                              \* 21
    THEN Answered(None, None, InternalError("BadRequest"))
    ELSE IF ~IsDict(body)                                          \* 24: .get
    THEN Answered(None, None, InternalError("AttributeError"))
    ELSE LET messages == Get(body, "messages", PyList(<<>>))       \* 24
             mdl == Get(body, "model", "gpt-3.5-turbo")            \* 25
         IN  IF ~Truthy(messages) \/ ~IsList(messages)             \* 31-38
             THEN Answered(None, None,
                      JsonResponse(400,
                          ErrorBody("messages is required and must be a list",
                                    "invalid_request_error", "missing_messages")))
             ELSE IF Truthy(url)                                   \* 41-42
             THEN forward_request(body, url, key, outcome, decode_error_caught)
             ELSE Answered(None, None, MockResponse(messages.v, mdl, id))

-----------------------------------------------------------------------------
(* The application: chat_completions called for one posted body, with the  *)
(* forwarding configured or not.                                           *)

\* What the messages field of a posted object can hold.
MessagesValues ==
    {PyList(<<>>),
     PyList(<<[role |-> "user", content |-> "Hi"]>>),
     PyList(<<[role |-> "system", content |-> "Be brief"],
              [role |-> "user", content |-> ""]>>),
     PyList(<<PyStr("Hi")>>),
     PyStr("Hi"),
     PyStr(""),
     PyInt(0),
     PyInt(7),
     None,
     [role |-> "user", content |-> "Hi"],
     EmptyDict}

\* The bodies a caller can post: no JSON, JSON that is no object, and objects
\* with or without messages and model.
AppBodies ==
    {NotJson, None, PyInt(5), PyStr("Hi"), PyList(<<>>),
     PyList(<<[role |-> "user", content |-> "Hi"]>>)}
    \cup {EmptyDict, [model |-> "gpt-4"]}
    \cup {[messages |-> v] : v \in MessagesValues}
    \cup {[messages |-> v, model |-> "gpt-4"] : v \in MessagesValues}

ForwardUrls == {None, PyStr(""), PyStr("https://api.example/v1/chat/completions")}
ForwardApiKeys == {None, PyStr("sk-1")}

ForwardOutcomes ==
    {[exc |-> "ConnectionError"]}
    \cup [status_code : StatusCodes, headers : {EmptyDict}, body : Bodies]

AppInit ==
    /\ lines_read = <<>>
    /\ stream_requested = FALSE
    /\ model = ""
    /\ response_id = ""
    /\ accumulated_content = ""
    /\ usage = None
    /\ first_chunk_sent = FALSE
    /\ yielded = <<>>
    /\ pc = "idle"
    /\ openai_data \in AppBodies
    /\ provider_dir = None
    /\ provider_config = None
    /\ sent = None
    /\ upstream = None
    /\ result = None
    /\ gw_pc = "app"
    /\ clock = 0
    /\ arg_model = <<>>
    /\ arg_provider = None
    /\ resolved = None
    /\ heap = <<>>
    /\ descriptor = 0
    /\ served = 0
    /\ forward_url \in ForwardUrls
    /\ forward_api_key \in ForwardApiKeys

ChatCompletions(outcome, id, decode_error_caught) ==
    /\ gw_pc = "app"
    /\ LET a == chat_completions(openai_data, forward_url, forward_api_key,
                                 outcome, id, decode_error_caught)
       IN  /\ sent' = a.sent
           /\ upstream' = a.upstream
           /\ result' = a.result
    /\ gw_pc' = "answered"
    /\ UNCHANGED <<translator_vars, openai_data, provider_dir, provider_config,
                   clock, registry_vars, descriptor_vars, app_vars>>

AppNext ==
    \E outcome \in ForwardOutcomes, id \in ResponseIds,
       decode_error_caught \in BOOLEAN :
        ChatCompletions(outcome, id, decode_error_caught)

SpecApp == AppInit /\ [][AppNext]_vars

-----------------------------------------------------------------------------
(* Objects and references: dicts and lists as the interpreter holds them   *)
(*                                                                         *)
(* The heap is the sequence of the objects allocated so far; the address   *)
(* of an object is its position.  A dict object holds, under the keys of   *)
(* ContainerKeys, the address of another object, and under every other key *)
(* a str, int or bool; a list object holds addresses (refs) or such        *)
(* values.  Assigning to a key or appending changes the object at an       *)
(* address, and with it what every holder of that address sees.            *)

\* The keys of the descriptor and of the payload under which a dict or a list
\* is held.
ContainerKeys == {"metadata", "headers", "payload_template", "messages", "models"}

DictObj(fields) == [kind |-> "dict", fields |-> fields]
ListObj(items, refs) == [kind |-> "list", refs |-> refs, items |-> items]

\* A new object: the heap with it, and its address.
Alloc(h, obj) == [heap |-> Append(h, obj), ref |-> Len(h) + 1]

\* json.load: a decoded document as fresh objects, the children before their
\* parent.  messages is a list of dicts, models a list of values.
RECURSIVE StoreDict(_, _)
RECURSIVE StoreFields(_, _, _, _)
RECURSIVE StoreList(_, _, _)
StoreDict(h, d) ==
    StoreFields(h, d, DOMAIN d \cap ContainerKeys,
                [k \in DOMAIN d \ ContainerKeys |-> d[k]])

StoreFields(h, d, keys, fields) ==
    IF keys = {} THEN Alloc(h, DictObj(fields))
    ELSE LET k == CHOOSE key \in keys : TRUE
             child == IF k = "messages" THEN StoreList(h, d[k], <<>>)
                      ELSE IF k = "models" THEN Alloc(h, ListObj(d[k], FALSE))
                      ELSE StoreDict(h, d[k])
         IN  StoreFields(child.heap, d, keys \ {k}, (k :> child.ref) @@ fields)

StoreList(h, items, refs) ==
    IF items = <<>> THEN Alloc(h, ListObj(refs, TRUE))
    ELSE LET child == StoreDict(h, Head(items))
         IN  StoreList(child.heap, Tail(items), Append(refs, child.ref))

\* The value an address stands for: the object with every address in it
\* replaced by the value of the object there.
RECURSIVE Deref(_, _)
Deref(h, a) ==
    LET obj == h[a] IN
    IF obj.kind = "dict"
    THEN [k \in DOMAIN obj.fields |->
              IF k \in ContainerKeys THEN Deref(h, obj.fields[k]) ELSE obj.fields[k]]
    ELSE IF obj.refs
    THEN [i \in DOMAIN obj.items |-> Deref(h, obj.items[i])]
    ELSE obj.items

\* The addresses an object holds, and those reachable from a set of addresses.
Refs(obj) ==
    IF obj.kind = "dict"
    THEN {obj.fields[k] : k \in DOMAIN obj.fields \cap ContainerKeys}
    ELSE IF obj.refs THEN {obj.items[i] : i \in DOMAIN obj.items}
    ELSE {}

RECURSIVE Reachable(_, _)
Reachable(h, addrs) ==
    LET more == addrs \cup UNION {Refs(h[a]) : a \in addrs}
    IN  IF more = addrs THEN addrs ELSE Reachable(h, more)

\* A variant of deepcopy that hands out the object itself.
no_copy(h, a) == [heap |-> h, ref |-> a]

\* The objects of objs copied to the end of h, each copy holding the addresses
\* of the copies; the copy of a is the object returned.
CopyObjects(h, a, objs) ==
    LET New(x) == Len(h) + Cardinality({y \in objs : y <= x})
        Old(n) == CHOOSE x \in objs : New(x) = n
        Copy(obj) ==
            IF obj.kind = "dict"
            THEN DictObj([k \in DOMAIN obj.fields |->
                             IF k \in ContainerKeys THEN New(obj.fields[k])
                             ELSE obj.fields[k]])
            ELSE IF obj.refs
            THEN ListObj([i \in DOMAIN obj.items |-> New(obj.items[i])], TRUE)
            ELSE obj
    IN  [heap |-> h \o [n \in 1..Cardinality(objs) |-> Copy(h[Old(Len(h) + n)])],
         ref |-> New(a)]

\* copy.deepcopy (line 28): a fresh object for every object reachable from a,
\* each holding the addresses of the fresh objects.
deepcopy(h, a) == CopyObjects(h, a, Reachable(h, {a}))

\* dict.copy() (lines 51, 60, 166): a fresh dict holding what the dict holds,
\* addresses included.
copy(h, a) == Alloc(h, h[a])

\* d[key] = value and l.append(value), on the object at an address.
SetItem(h, a, key, value) == [h EXCEPT ![a].fields = (key :> value) @@ @]
AppendItem(h, a, value) == [h EXCEPT ![a].items = Append(@, value)]

-----------------------------------------------------------------------------
(* build_provider_messages, build_provider_payload and                     *)
(* make_provider_request on objects: what they allocate and what they      *)
(* write to                                                                *)

\* if key in d: d[key] = value (lines 35-36, 64-65, 76-77).
SetItemIfPresent(h, a, key, value) ==
    IF key \in DOMAIN h[a].fields THEN SetItem(h, a, key, value) ELSE h

\* Lines 39-40: a new one-element list under models, when the message has the
\* key and the template names a model.
SetModels(h, provider_msg, payload_template) ==
    IF /\ "models" \in DOMAIN h[provider_msg].fields
       /\ "model" \in DOMAIN h[payload_template].fields
       /\ h[payload_template].fields.model # ""
    THEN SetItem(Append(h, ListObj(<<h[payload_template].fields.model>>, FALSE)),
                 provider_msg, "models", Len(h) + 1)
    ELSE h

\* Lines 31-42: the writes to provider_msg, the copy line 28 made, and its
\* append to the list being built.
FillProviderMessage(c, msg, idx, provider_messages, payload_template, now) ==
    AppendItem(
        SetModels(
            SetItemIfPresent(
                SetItem(SetItem(c.heap, c.ref, "role", Get(msg, "role", "user")),
                        c.ref, "content", Get(msg, "content", "")),
                c.ref, "timestamp", now + idx * timestamp_gap),
            c.ref, payload_template),
        provider_messages, c.ref)

\* Lines 26-42: the loop, from message idx on.  provider_messages is the list
\* being built, message_template the object line 24 picked, payload_template
\* the dict passed in.
RECURSIVE BuildMessagesOnHeap(_, _, _, _, _, _, _)
BuildMessagesOnHeap(h, msgs, idx, provider_messages, message_template, payload_template, now) ==
    IF msgs = <<>> THEN h
    ELSE BuildMessagesOnHeap(
             FillProviderMessage(deepcopy(h, message_template), Head(msgs), idx,
                                 provider_messages, payload_template, now),
             Tail(msgs), idx + 1, provider_messages, message_template,
             payload_template, now)

\* Line 24: the first example message of the template, or a new empty dict.
MessageTemplateOnHeap(h, fields) ==
    IF "messages" \in DOMAIN fields /\ h[fields.messages].items # <<>>
    THEN [heap |-> h, ref |-> h[fields.messages].items[1]]
    ELSE Alloc(h, DictObj(EmptyDict))

\* Lines 19-44: the heap afterwards and the address of the list returned,
\* which line 19 allocates first.
BuildProviderMessagesOnHeap(h, openai_messages, payload_template, now) ==
    [heap |-> BuildMessagesOnHeap(
                  MessageTemplateOnHeap(Append(h, ListObj(<<>>, TRUE)),
                                        h[payload_template].fields).heap,
                  openai_messages, 0, Len(h) + 1,
                  MessageTemplateOnHeap(Append(h, ListObj(<<>>, TRUE)),
                                        h[payload_template].fields).ref,
                  payload_template, now),
     ref |-> Len(h) + 1]

\* Lines 72-73 and 320-321: the stream flag of the descriptor's metadata.
ProviderStreamsOnHeap(h, config) ==
    IF "metadata" \in DOMAIN h[config].fields
    THEN Get(h[h[config].fields.metadata].fields, "stream", TRUE)
    ELSE TRUE

\* Lines 72-77: the provider's stream flag, written where the payload has the
\* key.
SetStream(h, payload, config) ==
    SetItemIfPresent(h, payload, "stream", ProviderStreamsOnHeap(h, config))

\* Lines 60-79: payload, the copy line 60 made, is given the messages, the
\* time and the provider's stream flag.
FillPayload(payload, provider_messages, config, now) ==
    [heap |-> SetStream(
                  SetItemIfPresent(
                      SetItem(payload.heap, payload.ref, "messages", provider_messages),
                      payload.ref, "timestamp", now),
                  payload.ref, config),
     ref |-> payload.ref]

\* Lines 54-79, payload_template being the copy line 51 made.
PayloadFromTemplate(payload_template, data, config, now) ==
    FillPayload(
        copy(BuildProviderMessagesOnHeap(payload_template.heap,
                                         Get(data, "messages", <<>>),
                                         payload_template.ref, now).heap,
             payload_template.ref),
        Len(payload_template.heap) + 1, config, now)

\* Lines 51-79: the heap afterwards and the address of the payload.
BuildProviderPayloadOnHeap(h, data, config, now) ==
    PayloadFromTemplate(copy(h, h[config].fields.payload_template), data, config, now)

\* Lines 165-184, for a provider_config with metadata, host and headers: the
\* heap afterwards and the request handed to requests.post, which serializes
\* the payload and the headers it is given.
MakeProviderRequestOnHeap(h, config, payload, stream) ==
    LET metadata == h[h[config].fields.metadata].fields                   \* 165
        headers == copy(h, h[config].fields.headers)                      \* 166
        fields == headers.heap[config].fields
    IN  [heap |-> headers.heap,
         request |-> [url |-> [host |-> metadata.host,
                               path |-> Get(fields, "path",
                                            "/api/v2/chat/completions"),
                               query |-> Get(fields, "query_params", "")],
                      json |-> Deref(headers.heap, payload),
                      headers |-> Deref(headers.heap, headers.ref),
                      stream |-> stream,
                      timeout |-> timeout]]

-----------------------------------------------------------------------------
(* The descriptor: a provider_config loaded once, and requests built from  *)
(* it one after the other.                                                 *)

\* The most requests built from one loaded descriptor.
MaxRequests == 2

\* A template whose example message has models and which names no model, and
\* one whose list of messages is empty.
TemplateWithoutModel ==
    [chat_id |-> "c1", stream |-> TRUE,
     messages |-> <<[role |-> "user", content |-> "", models |-> <<"qwen-max">>]>>]
TemplateWithoutExample == [chat_id |-> "c1", timestamp |-> 0, messages |-> <<>>]

\* Directories with the three files a request needs.
DescriptorDirs ==
    {[metadata_json |-> md, header_txt |-> HeaderText, payload_json |-> t] :
         md \in Metadatas,
         t \in {Template, BareTemplate, TemplateWithoutModel, TemplateWithoutExample}}

DescriptorInit ==
    /\ lines_read = <<>>
    /\ stream_requested = FALSE
    /\ model = ""
    /\ response_id = ""
    /\ accumulated_content = ""
    /\ usage = None
    /\ first_chunk_sent = FALSE
    /\ yielded = <<>>
    /\ pc = "idle"
    /\ openai_data = None
    /\ provider_dir \in DescriptorDirs
    /\ provider_config = None
    /\ sent = None
    /\ upstream = None
    /\ result = None
    /\ gw_pc = "unloaded"
    /\ clock = 0
    /\ arg_model = <<>>
    /\ arg_provider = None
    /\ resolved = None
    /\ heap = <<>>
    /\ descriptor = 0
    /\ served = 0
    /\ forward_url = None
    /\ forward_api_key = None

\* load_provider_config: the descriptor as fresh objects.  provider_config
\* keeps the value it had at load time.
LoadDescriptor ==
    /\ gw_pc = "unloaded"
    /\ LET config == load_provider_config(provider_dir)
           stored == StoreDict(heap, config)
       IN  /\ provider_config' = config
           /\ heap' = stored.heap
           /\ descriptor' = stored.ref
    /\ gw_pc' = "ready"
    /\ UNCHANGED <<translator_vars, openai_data, provider_dir, sent, upstream, result,
                   clock, registry_vars, served, app_vars>>

\* One request: build_provider_payload and make_provider_request (lines 317-327)
\* on the loaded descriptor.
BuildAndSend(data, now) ==
    /\ gw_pc = "ready"
    /\ served < MaxRequests
    /\ \E payload \in {BuildProviderPayloadOnHeap(heap, data, descriptor, now)} :
           \E made \in {MakeProviderRequestOnHeap(
                            payload.heap, descriptor, payload.ref,
                            ProviderStreamsOnHeap(payload.heap, descriptor))} :
               /\ heap' = made.heap
               /\ sent' = made.request
    /\ openai_data' = data
    /\ clock' = now
    /\ served' = served + 1
    /\ UNCHANGED <<translator_vars, provider_dir, provider_config, upstream, result,
                   gw_pc, registry_vars, descriptor, app_vars>>

DescriptorNext ==
    \/ LoadDescriptor
    \/ \E data \in Requests, now \in Times : BuildAndSend(data, now)

SpecDescriptor == DescriptorInit /\ [][DescriptorNext]_vars

-----------------------------------------------------------------------------
(* Reading a transcript and the emitted output, for the properties below *)

\* A line that holds a delta event: "data: " and a JSON object, not a
\* response.created notification, whose first choice has a delta.
IsDeltaEvent(line) ==
    /\ line.kind = "data"
    /\ line.valid
    /\ IsDict(line.json)
    /\ "response_created" \notin DOMAIN line.json
    /\ "choices" \in DOMAIN line.json
    /\ Len(line.json.choices) > 0
    /\ "delta" \in DOMAIN line.json.choices[1]

EventContent(line) == Get(line.json.choices[1].delta, "content", "")
EventStatus(line) == Get(line.json.choices[1].delta, "status", "typing")

IsFinishedEvent(line) == IsDeltaEvent(line) /\ EventStatus(line) = "finished"

\* The delta events among the lines read, in order.
EventsRead == SelectSeq(lines_read, IsDeltaEvent)

\* A finished event is among the lines read: the loop stops at it, so it is
\* the last line read and it was processed.
FinishedProcessed ==
    \E i \in 1..Len(lines_read) : IsFinishedEvent(lines_read[i])

RECURSIVE ConcatContents(_)
ConcatContents(lines) ==
    IF lines = <<>> THEN ""
    ELSE EventContent(Head(lines)) \o ConcatContents(Tail(lines))

\* A data line whose payload json.loads rejects.
IsMalformed(line) == line.kind = "data" /\ ~line.valid
NotMalformed(line) == ~IsMalformed(line)

\* An SSE frame carrying a chunk (not the DONE line, not the aggregate dict).
IsFrame(item) == "data" \in DOMAIN item /\ "choices" \in DOMAIN item.data
FrameDelta(item) == item.data.choices[1].delta
HasRole(item) == IsFrame(item) /\ "role" \in DOMAIN FrameDelta(item)
IsEventFrame(item) ==
    IsFrame(item) /\ item.data.choices[1].finish_reason = "None"
IsTerminalFrame(item) ==
    /\ IsFrame(item)
    /\ item.data.choices[1].finish_reason = "stop"
    /\ FrameDelta(item) = EmptyDict
IsAggregate(item) ==
    "data" \notin DOMAIN item /\ item.object = "chat.completion"

\* Where in the output the frames with a role, the terminal frames and the
\* DONE lines are.
RolePositions == {i \in 1..Len(yielded) : HasRole(yielded[i])}
TerminalPositions == {i \in 1..Len(yielded) : IsTerminalFrame(yielded[i])}
DonePositions == {i \in 1..Len(yielded) : yielded[i] = DoneLine}

-----------------------------------------------------------------------------
(* C1 *)

\* C1: in non-streaming mode, for a transcript of k >= 0 delta events followed
\* by a finished event, the generator yields one aggregate response whose
\* message content is the in-order concatenation of the content of each of
\* those events, the finished event's included.
C1_AggregateContentIsConcatenation ==
    ( /\ ~stream_requested
      /\ pc = "done"
      /\ \A i \in 1..Len(lines_read) : IsDeltaEvent(lines_read[i])
      /\ FinishedProcessed )
    => /\ Len(yielded) = 1
       /\ IsAggregate(yielded[1])
       /\ yielded[1].choices[1].message.content = ConcatContents(lines_read)

\* Two content-bearing events and a content-bearing finished event, aggregated.
C1_Witness ==
    /\ ~stream_requested
    /\ pc = "done"
    /\ Len(lines_read) = 3
    /\ \A i \in 1..Len(lines_read) : IsDeltaEvent(lines_read[i])
    /\ FinishedProcessed
    /\ Len(yielded) = 1
    /\ yielded[1].choices[1].message.content = "bab"

-----------------------------------------------------------------------------
(* C2 *)

-----------------------------------------------------------------------------
(* C3 *)

\* C3: in streaming mode, a stream in which a finished event is processed ends
\* with exactly one terminal frame (empty delta, finish_reason "stop")
\* followed immediately by the DONE line, and nothing is emitted after DONE
\* (in every state, a DONE line is the last item emitted).
C3_TerminalFrameThenDone ==
    stream_requested
    => /\ FinishedProcessed
          => /\ Len(yielded) >= 2
             /\ yielded[Len(yielded)] = DoneLine
             /\ IsTerminalFrame(yielded[Len(yielded) - 1])
             /\ Cardinality(TerminalPositions) = 1
             /\ Cardinality(DonePositions) = 1
       /\ \A i \in 1..Len(yielded) : yielded[i] = DoneLine => i = Len(yielded)

\* A stream of two typing events and a finished one, ended by terminal frame
\* and DONE.
C3_Witness ==
    /\ stream_requested
    /\ FinishedProcessed
    /\ Len(lines_read) = 3
    /\ Len(yielded) = 5
    /\ IsTerminalFrame(yielded[4])
    /\ yielded[5] = DoneLine

-----------------------------------------------------------------------------
(* C4 *)

\* C4: malformed data lines are dropped without aborting translation: after
\* any transcript, the accumulated buffer, the emitted output and the position
\* of the generator are those of the same transcript without its malformed
\* lines.
C4_MalformedLinesLeaveNoTrace ==
    LET clean == RunLoop(InitialLocals, SelectSeq(lines_read, NotMalformed),
                         stream_requested, response_id, model)
        expected == IF pc = "done" /\ clean.pc = "reading"
                    THEN AfterLoop(clean, stream_requested, response_id, model)
                    ELSE clean
    IN  /\ accumulated_content = expected.accumulated_content
        /\ yielded = expected.yielded
        /\ pc = expected.pc

\* A malformed line between two content-bearing events, both accumulated.
C4_Witness ==
    /\ Len(lines_read) = 3
    /\ IsDeltaEvent(lines_read[1])
    /\ IsMalformed(lines_read[2])
    /\ IsDeltaEvent(lines_read[3])
    /\ accumulated_content = "ab"
    /\ pc = "done"

-----------------------------------------------------------------------------
(* C5 *)

\* C5: in streaming mode, when the upstream body ends without a finished
\* event, the generator still emits a terminal frame with an empty delta
\* before it terminates.
C5_TerminalFrameOnPrematureClose ==
    (stream_requested /\ pc = "done" /\ ~FinishedProcessed)
    => TerminalPositions # {}


-----------------------------------------------------------------------------
(* C6 *)

\* The caller's stream flag: data.get('stream', False).
CallerWantsStream == Get(openai_data, "stream", FALSE)

\* C6: when the provider answers with a stream that runs to its finished
\* event and the caller's request has stream = false, the caller gets exactly
\* one aggregate chat.completion response holding the accumulated content, and
\* no SSE frame.
C6_AggregateForNonStreamingCaller ==
    ( /\ gw_pc = "returned"
      /\ result.kind = "stream"
      /\ ~CallerWantsStream
      /\ pc = "done"
      /\ FinishedProcessed )
    => /\ Len(yielded) = 1
       /\ IsAggregate(yielded[1])
       /\ yielded[1].choices[1].message.content = accumulated_content

-----------------------------------------------------------------------------
(* C9 *)

\* C9: when the provider answers with a status that is not 2xx, the caller
\* gets the provider's own status code and body, not the 500 provider_error
\* of a connect or timeout failure.
C9_UpstreamStatusSurfaced ==
    ( /\ gw_pc = "returned"
      /\ upstream # None
      /\ ~IsTransportError(upstream)
      /\ ~(upstream.status_code \in 200..299) )
    => /\ result.kind = "json"
       /\ result.status_code = upstream.status_code
       /\ result.body = upstream.body

-----------------------------------------------------------------------------
(* C10 *)

\* The provider's directory is absent, or one of its three artifacts is.
IncompleteProvider ==
    \/ provider_dir = None
    \/ ~({"metadata_json", "header_txt", "payload_json"} \subseteq DOMAIN provider_dir)

\* C10: for a provider whose directory is absent or lacks one of metadata,
\* header block and payload template, load_provider_config returns no
\* descriptor (None, or nothing the handler's "if not provider_config" takes
\* for one), never a partial one, and handle_provider_request answers with the
\* provider_not_found error, without building a payload.
C10_IncompleteProviderNotFound ==
    (gw_pc \in {"returned", "raised"} /\ IncompleteProvider)
    => /\ ~Truthy(provider_config)
       /\ result.kind = "json"
       /\ result.status_code = 400
       /\ result.body.error.code = "provider_not_found"


-----------------------------------------------------------------------------
(* C7 *)

\* C7 as stated: for every model name, determine_provider returns the provider
\* field whenever one is supplied (the field is not None), and infers from the
\* model name only when none is.
C7_ExplicitProviderAlwaysWins ==
    (gw_pc = "resolved" /\ arg_provider # None) => resolved = arg_provider

\* C7 amended: for every model name, determine_provider returns the provider
\* field whenever it is supplied and not empty; an empty provider field is
\* taken as not given, and the result is then inferred from the model name.
C7_NonEmptyProviderWins ==
    gw_pc = "resolved"
    => /\ (arg_provider # None /\ arg_provider.v # "") => resolved = arg_provider
       /\ (arg_provider # None /\ arg_provider.v = "")
              => resolved = IF Contains(Qwen, Lower(arg_model))
                            THEN PyStr("qwen") ELSE None

\* An explicit provider returned for a model name that names qwen, in mixed case.
C7_Witness ==
    /\ gw_pc = "resolved"
    /\ arg_model = <<"Q", "w", "e", "n", "-">>
    /\ arg_provider = PyStr("openai")
    /\ resolved = PyStr("openai")

-----------------------------------------------------------------------------
(* C8 *)

\* The Key: Value lines of a header block, after its first line.
KeyValueLines(header_text) == SelectSeq(Tail(header_text), HasColon)

\* C8: the headers sent upstream are, duplicate keys included, the Key: Value
\* lines of the header block after its first line: as many headers as there
\* are such lines, each with the line's key and value.
C8_HeadersForwardedWithDuplicates ==
    gw_pc = "sent"
    => LET lines == KeyValueLines(provider_dir.header_txt) IN
       /\ Cardinality(DOMAIN sent.headers) = Len(lines)
       /\ \A i \in 1..Len(lines) :
              /\ HeaderKey(lines[i]) \in DOMAIN sent.headers
              /\ sent.headers[HeaderKey(lines[i])] = HeaderValue(lines[i])

-----------------------------------------------------------------------------
(* C11 *)

\* Line 24: the example message of the loaded template, the empty dict when
\* the template has no messages.
ExampleMessage(config) ==
    IF "messages" \in DOMAIN config.payload_template
       /\ Len(config.payload_template.messages) > 0
    THEN config.payload_template.messages[1]
    ELSE EmptyDict

\* C11: when the example message of the template has a models field, every
\* message of the payload sent to the provider has as its models field the
\* one-element list holding the model named in the caller's request.
C11_ModelsHoldRequestedModel ==
    ( /\ gw_pc = "returned"
      /\ sent # None
      /\ "models" \in DOMAIN ExampleMessage(provider_config)
      /\ "model" \in DOMAIN openai_data )
    => \A i \in 1..Len(sent.json.messages) :
           sent.json.messages[i].models = <<openai_data.model>>

-----------------------------------------------------------------------------
(* C12 *)

\* Line 254: the document of a line carries a usage object.
CarriesUsage(line) == "usage" \in DOMAIN line.json

\* The usage object of the most recent delta event read that carried one, and
\* the empty dict when none did.
LastEventUsage ==
    LET carriers == SelectSeq(EventsRead, CarriesUsage) IN
    IF carriers = <<>> THEN EmptyDict
    ELSE carriers[Len(carriers)].json.usage

\* C12: in non-streaming mode, once the loop has ended (at a finished event or
\* at the end of the upstream body), exactly one aggregate response has been
\* emitted and no frame; its usage is the usage object of the most recent event
\* that carried one, and the empty object when no event carried one.
C12_AggregateCarriesLastUsage ==
    (~stream_requested /\ pc = "done")
    => /\ Len(yielded) = 1
       /\ IsAggregate(yielded[1])
       /\ yielded[1].usage = LastEventUsage

-----------------------------------------------------------------------------
(* C13 *)

\* The rules of convert_provider_response_to_openai, as conditions on the
\* upstream document.
HasFirstChoice(doc) == "choices" \in DOMAIN doc /\ Len(doc.choices) > 0
MessageShaped(doc) == HasFirstChoice(doc) /\ "message" \in DOMAIN doc.choices[1]
DeltaShaped(doc) == HasFirstChoice(doc) /\ "delta" \in DOMAIN doc.choices[1]
FlatContent(doc) == "content" \in DOMAIN doc
GenericObject(doc) == "object" \in DOMAIN doc
MatchesSomeRule(doc) ==
    MessageShaped(doc) \/ DeltaShaped(doc) \/ FlatContent(doc) \/ GenericObject(doc)

\* The request was answered on the normalizer path with a decoded document.
NormalizerRan ==
    /\ gw_pc = "returned"
    /\ sent # None
    /\ ~IsTransportError(upstream)
    /\ ~RaisesForStatus(upstream)
    /\ result.kind = "json"
    /\ "json" \in DOMAIN upstream.body

-----------------------------------------------------------------------------
(* C15 *)

\* C15: a complete upstream document (a JSON object) with a content field of
\* its own and no non-empty choices list is normalized to a chat.completion
\* with exactly one choice, whose message has the role "assistant" and that
\* content, and whose usage is the document's usage field, the empty object
\* when the document has none.
C15_FlatContentWrapped ==
    ( /\ NormalizerRan
      /\ IsDict(upstream.body.json)
      /\ FlatContent(upstream.body.json)
      /\ ~HasFirstChoice(upstream.body.json) )
    => LET doc == upstream.body.json IN
       /\ result.status_code = upstream.status_code
       /\ result.body =
              [id |-> response_id,
               object |-> "chat.completion",
               model |-> Get(openai_data, "model", "gpt-3.5-turbo"),
               choices |->
                   <<[index |-> 0,
                      message |-> [role |-> "assistant", content |-> doc.content],
                      finish_reason |-> "stop"]>>,
               usage |-> IF "usage" \in DOMAIN doc THEN doc.usage ELSE EmptyDict]

\* The document {content: "X", usage: {total_tokens: 5}} normalized.
C15_Witness ==
    /\ NormalizerRan
    /\ upstream.body.json = [content |-> "X", usage |-> UsageA]
    /\ Len(result.body.choices) = 1
    /\ result.body.choices[1].message.content = "X"
    /\ result.body.usage = UsageA

-----------------------------------------------------------------------------
(* C16 *)

-----------------------------------------------------------------------------
(* C18 *)

\* C18: when the example message of the template has a timestamp field, the
\* messages of the payload carry strictly increasing timestamps in input
\* order: the i-th message (counted from 0) has the timestamp base + 10 * i,
\* base being the clock as building started; there is one message for each
\* message of the caller, in the caller's order.
C18_TimestampsIncreaseByGap ==
    ( /\ gw_pc = "returned"
      /\ sent # None
      /\ "timestamp" \in DOMAIN ExampleMessage(provider_config) )
    => LET built == sent.json.messages IN
       /\ Len(built) = Len(openai_data.messages)
       /\ \A i \in 1..Len(built) :
              /\ built[i].timestamp = clock + 10 * (i - 1)
              /\ built[i].content = openai_data.messages[i].content
       /\ \A i \in 1..(Len(built) - 1) : built[i].timestamp < built[i + 1].timestamp

\* Four messages built at 1007: 1007, 1017, 1027, 1037.
C18_Witness ==
    /\ gw_pc = "returned"
    /\ sent # None
    /\ "timestamp" \in DOMAIN ExampleMessage(provider_config)
    /\ clock = 1007
    /\ Len(sent.json.messages) = 4
    /\ sent.json.messages[1].timestamp = 1007
    /\ sent.json.messages[4].timestamp = 1037

-----------------------------------------------------------------------------
(* C19 *)

\* Lines 72-73: the provider's declared streaming default, True when the
\* metadata declares none.
DeclaredStream(config) == Get(Get(config, "metadata", EmptyDict), "stream", TRUE)

-----------------------------------------------------------------------------
(* C20 *)

\* A line whose payload json.loads decodes to an object with a usage field,
\* whatever else the object holds.
IsUsageDocument(line) ==
    /\ line.kind = "data"
    /\ line.valid
    /\ IsDict(line.json)
    /\ "usage" \in DOMAIN line.json

\* The frames emitted for the delta events, in order.
EventFrames == SelectSeq(yielded, IsEventFrame)

\* C20 as stated: in streaming mode, once the finished event is processed,
\* whenever a document parsed up to then carried a usage object, the terminal
\* frame carries the most recent such object; and the frame emitted for an
\* event that carries a usage object carries that object.
C20_TerminalCarriesLastParsedUsage ==
    (stream_requested /\ FinishedProcessed)
    => LET carriers == SelectSeq(lines_read, IsUsageDocument)
           terminal == yielded[Len(yielded) - 1].data
       IN  /\ carriers # <<>>
              => /\ "usage" \in DOMAIN terminal
                 /\ terminal.usage = carriers[Len(carriers)].json.usage
           /\ \A i \in 1..Len(EventsRead) :
                  CarriesUsage(EventsRead[i])
                  => /\ "usage" \in DOMAIN EventFrames[i].data
                     /\ EventFrames[i].data.usage = EventsRead[i].json.usage

\* C20 amended: in streaming mode, once the finished event is processed, the
\* terminal frame carries the usage object of the most recent delta event
\* that carried one (the finished event included) when that object is not
\* empty, and no usage field when it is empty or when no delta event carried
\* one; a usage object in a document without a delta is not remembered.  The
\* frame emitted for a delta event carries the event's usage object exactly
\* when the event carries one.
C20_TerminalCarriesLastEventUsage ==
    stream_requested
    => /\ Len(EventFrames) = Len(EventsRead)
       /\ \A i \in 1..Len(EventsRead) :
              IF CarriesUsage(EventsRead[i])
              THEN /\ "usage" \in DOMAIN EventFrames[i].data
                   /\ EventFrames[i].data.usage = EventsRead[i].json.usage
              ELSE "usage" \notin DOMAIN EventFrames[i].data
       /\ FinishedProcessed
          => LET terminal == yielded[Len(yielded) - 1].data IN
             IF Truthy(LastEventUsage)
             THEN "usage" \in DOMAIN terminal /\ terminal.usage = LastEventUsage
             ELSE "usage" \notin DOMAIN terminal

\* An event with usage, an event without, then a finished event without: the
\* first frame and the terminal frame carry the usage, the others do not.
C20_Witness ==
    /\ stream_requested
    /\ FinishedProcessed
    /\ Len(EventsRead) = 3
    /\ CarriesUsage(EventsRead[1])
    /\ ~CarriesUsage(EventsRead[2])
    /\ ~CarriesUsage(EventsRead[3])
    /\ yielded[1].data.usage = UsageA
    /\ "usage" \notin DOMAIN yielded[2].data
    /\ IsTerminalFrame(yielded[4])
    /\ yielded[4].data.usage = UsageA

-----------------------------------------------------------------------------
(* C17 *)

\* The posted body is no JSON object, or it is one whose messages are absent,
\* empty or not a list.
MalformedRequest(body) ==
    \/ ~IsDict(body)
    \/ "messages" \notin DOMAIN body
    \/ ~IsList(body.messages)
    \/ body.messages.v = <<>>

\* C17: a chat-completion request whose messages are missing or malformed
\* (absent, empty, not a list, or a body that is no JSON object) is answered
\* with status 400 and the envelope {error: {message, type, code}}, and nothing
\* is forwarded.
C17_MalformedRequestAnswered400 ==
    (gw_pc = "answered" /\ MalformedRequest(openai_data))
    => /\ result.status_code = 400
       /\ DOMAIN result.body = {"error"}
       /\ DOMAIN result.body.error = {"message", "type", "code"}
       /\ sent = None

-----------------------------------------------------------------------------
(* C14 *)

\* C14: after any sequence of requests built from a loaded descriptor, the
\* descriptor (its payload template with the example message and the fields
\* beside it, its header set, its metadata) has the value it had at load time;
\* the requests wrote to copies, so each request sent is the one its inputs
\* and the load-time descriptor determine.
C14_DescriptorNeverMutated ==
    descriptor # 0
    => /\ Deref(heap, descriptor) = provider_config
       /\ served > 0
          => sent = make_provider_request(
                        provider_config,
                        build_provider_payload(openai_data, provider_config, clock),
                        DeclaredStream(provider_config))

\* Two requests built from a template with an example message: objects were
\* allocated and written to, and the descriptor reads as it did when loaded.
C14_Witness ==
    /\ served = 2
    /\ provider_dir.payload_json = Template
    /\ Len(heap) > descriptor
    /\ sent.json.messages[1].role = "system"
    /\ sent.json.messages[1].timestamp = clock
    /\ Deref(heap, descriptor).payload_template.messages =
           <<[role |-> "user", content |-> "", timestamp |-> 0,
              models |-> <<"qwen-max">>, extra |-> "feature"]>>


-----------------------------------------------------------------------------
(* C21 *)

\* Lines the upstream body may hold after a finished event: deltas with
\* content, one of them finished in its turn, one with usage, and a line that
\* is not JSON.
TrailingLines ==
    {DataLine(DeltaEvent([content |-> "a", status |-> "typing"])),
     DataLine(DeltaEvent([content |-> "b", status |-> "finished"])),
     DataLine(DeltaEventWithUsage([content |-> "b"], UsageB)),
     InvalidDataLine}

\* C21: once a delta event with status "finished" has been processed the
\* translator has left the loop: the finished event is the last line consumed,
\* and whatever lines the upstream body holds after it (content-bearing deltas
\* included), the emitted output, the accumulated content and the remembered
\* usage are those of the transcript that ends at the finished event, in
\* streaming and in non-streaming mode.
C21_NothingConsumedAfterFinished ==
    \A i \in 1..Len(lines_read) :
        IsFinishedEvent(lines_read[i])
        => /\ i = Len(lines_read)
           /\ pc = "done"
           /\ \A rest \in SeqsUpTo(TrailingLines, 2) :
                  RunLoop(InitialLocals, lines_read \o rest, stream_requested,
                          response_id, model) = CurrentLocals

\* A content-bearing event and a finished event, streamed: two event frames,
\* the terminal frame and DONE, with room left in the transcript.
C21_Witness ==
    /\ stream_requested
    /\ Len(lines_read) = 2
    /\ IsFinishedEvent(lines_read[2])
    /\ Len(lines_read) < MaxLines
    /\ accumulated_content = "ab"
    /\ Len(yielded) = 4
    /\ pc = "done"


-----------------------------------------------------------------------------
(* C22 *)

\* C22: when the provider has answered the request with a status that is no
\* error, the declared streaming default alone decides who handles the answer,
\* whatever Content-Type and Transfer-Encoding the answer carries: a provider
\* declared stream = false is handled by the normalizer, and a provider
\* declared stream = true, or declaring nothing, by the stream translator.
C22_DeclaredDefaultDecides ==
    ( /\ gw_pc = "returned"
      /\ sent # None
      /\ ~IsTransportError(upstream)
      /\ ~RaisesForStatus(upstream) )
    => IF DeclaredStream(provider_config)
       THEN result = StreamResponse /\ pc # "idle"
       ELSE /\ result = NormalizedResponse(upstream,
                                           Get(openai_data, "model", "gpt-3.5-turbo"),
                                           response_id)
            /\ pc = "idle"

\* A provider declared stream = false answers with a chunked event stream: the
\* normalizer handles it, and no generator is started.
C22_Witness ==
    /\ gw_pc = "returned"
    /\ sent # None
    /\ ~IsTransportError(upstream)
    /\ upstream.status_code = 200
    /\ ~DeclaredStream(provider_config)
    /\ upstream.headers = ("Content-Type" :> "text/event-stream")
                              @@ ("Transfer-Encoding" :> "chunked")
    /\ upstream.body = SseBody
    /\ result.kind = "json"
    /\ pc = "idle"


-----------------------------------------------------------------------------
(* C23 *)

\* The name holds the letters q, w, e, n one after the other, each in either
\* case.
SpellsQwen(name) ==
    \E i \in 0..(Len(name) - 4) :
        /\ name[i + 1] \in {"q", "Q"}
        /\ name[i + 2] \in {"w", "W"}
        /\ name[i + 3] \in {"e", "E"}
        /\ name[i + 4] \in {"n", "N"}

\* C23: with no explicit provider, determine_provider returns "qwen" exactly
\* when the model name contains the fragment "qwen" in any letter case, and
\* returns None, without raising, for every other model name.
C23_QwenInferredInAnyCase ==
    (gw_pc = "resolved" /\ arg_provider = None)
    => resolved = IF SpellsQwen(arg_model) THEN PyStr("qwen") ELSE None

\* A name that spells the fragment in mixed case after another character.
C23_Witness ==
    /\ gw_pc = "resolved"
    /\ arg_provider = None
    /\ arg_model = <<"-", "Q", "w", "E", "n">>
    /\ resolved = PyStr("qwen")


-----------------------------------------------------------------------------
(* C24 *)

\* C24: the normalizer maps a document by the first rule it matches, in the
\* order message-shaped first choice, delta-shaped first choice, flat content,
\* generic response object, whatever later rules the document matches too: the
\* choices as they came, or one message made of the delta's role and content,
\* or one assistant message with the content, or the document itself with its
\* id replaced and nothing else changed.
C24_FirstMatchingRuleApplies ==
    ( /\ NormalizerRan
      /\ IsDict(upstream.body.json)
      /\ MatchesSomeRule(upstream.body.json) )
    => LET doc == upstream.body.json
           Completion(choices) ==
               [id |-> response_id,
                object |-> "chat.completion",
                model |-> Get(openai_data, "model", "gpt-3.5-turbo"),
                choices |-> choices,
                usage |-> IF "usage" \in DOMAIN doc THEN doc.usage ELSE EmptyDict]
           OneMessage(role, content) ==
               <<[index |-> 0, message |-> [role |-> role, content |-> content],
                  finish_reason |-> "stop"]>>
       IN  result.body =
               IF MessageShaped(doc) THEN Completion(doc.choices)
               ELSE IF DeltaShaped(doc)
               THEN Completion(OneMessage(
                        Get(doc.choices[1].delta, "role", "assistant"),
                        Get(doc.choices[1].delta, "content", "")))
               ELSE IF FlatContent(doc)
               THEN Completion(OneMessage("assistant", doc.content))
               ELSE [k \in DOMAIN doc \cup {"id"} |->
                         IF k = "id" THEN response_id ELSE doc[k]]

\* A document that matches all four rules, mapped by the first: its choices
\* are returned as they came.
C24_Witness ==
    /\ NormalizerRan
    /\ IsDict(upstream.body.json)
    /\ MessageShaped(upstream.body.json)
    /\ DeltaShaped(upstream.body.json)
    /\ FlatContent(upstream.body.json)
    /\ GenericObject(upstream.body.json)
    /\ result.body.choices = upstream.body.json.choices
    /\ result.body.id = response_id


-----------------------------------------------------------------------------
(* C25 *)

\* Lines 194-297: the generator run to its end over a whole upstream body.
StreamProviderResponse(lines, requested, id, mdl) ==
    LET st == RunLoop(InitialLocals, lines, requested, id, mdl)
    IN  IF st.pc = "reading" THEN AfterLoop(st, requested, id, mdl) ELSE st

\* The content fields of the frames of an output, one after the other.
RECURSIVE FrameContents(_)
FrameContents(out) ==
    IF out = <<>> THEN ""
    ELSE (IF IsFrame(Head(out)) THEN Get(FrameDelta(Head(out)), "content", "")
          ELSE "")
         \o FrameContents(Tail(out))

\* C25: for every upstream transcript, the generator in non-streaming mode
\* emits a single aggregate response, and its message content is the in-order
\* concatenation of the content fields of the frames the generator emits for
\* the same transcript in streaming mode.
C25_StreamedContentEqualsAggregate ==
    pc # "reading"
    => LET other == StreamProviderResponse(lines_read, ~stream_requested,
                                           response_id, model).yielded
           streamed == IF stream_requested THEN yielded ELSE other
           aggregated == IF stream_requested THEN other ELSE yielded
       IN  /\ Len(aggregated) = 1
           /\ IsAggregate(aggregated[1])
           /\ FrameContents(streamed) = aggregated[1].choices[1].message.content


-----------------------------------------------------------------------------
(* C26 *)

\* A data line whose payload is valid JSON and no delta event: a number, null,
\* an empty object, a response.created notification, an object without
\* choices, with an empty choices list or with a first choice without delta.
IsOtherDocument(line) == line.kind = "data" /\ line.valid /\ ~IsDeltaEvent(line)
NotOtherDocument(line) == ~IsOtherDocument(line)

\* C26: data lines whose payload is valid JSON but no delta-bearing object are
\* skipped: after any transcript, the accumulated buffer, the remembered
\* usage, the first-chunk flag, the emitted output and the position of the
\* generator (which has raised nothing) are those of the same transcript
\* without these lines.
C26_OtherDocumentsSkipped ==
    LET clean == RunLoop(InitialLocals, SelectSeq(lines_read, NotOtherDocument),
                         stream_requested, response_id, model)
        expected == IF pc = "done" /\ clean.pc = "reading"
                    THEN AfterLoop(clean, stream_requested, response_id, model)
                    ELSE clean
    IN  /\ pc # "raised"
        /\ CurrentLocals = expected

=============================================================================
